---- MODULE Spec2Model ----
(***************************************************************************)
(* Model of the request / retry / error-normalisation pipeline of          *)
(* ApiClient (src/src/api/ApiClient.ts).                                   *)
(*                                                                         *)
(* One call of ApiClient.request is a process that suspends at each        *)
(* `await`: the transport call and the inter-attempt delay.  The actions   *)
(* below are the code between two suspension points.                       *)
(*                                                                         *)
(* JavaScript values:                                                      *)
(*   - an optional string-like value is a string, `undefined` being the    *)
(*     sentinel UNDEFINED;                                                 *)
(*   - a number that may be undefined or NaN is a record [t, v] with       *)
(*     t in {"num", "nan", "undefined"};                                   *)
(*   - a header value is a sequence of one-character strings.              *)
(***************************************************************************)
EXTENDS Integers, Sequences, FiniteSets, TLC

VARIABLES
    pc,           \* position of the request call: "idle", "transport", "delay", "done"
    config,       \* the AxiosRequestConfig built by request()
    retryConfig,  \* const retryConfig of makeRequestWithRetry
    attempt,      \* loop variable of makeRequestWithRetry
    lastError,    \* let lastError of makeRequestWithRetry
    result,       \* how the promise returned by request() settled
    log,          \* history: what the call has done so far (transport outcomes, waits)
    lastFailure,  \* history: the error of the most recent failed transport call
    response,     \* the AxiosResponse handed to parseResponse
    clientConfig, \* this.config of the ApiClient instance
    ctorConfig,   \* history: the configuration the ApiClient was constructed with
    svcCall,      \* the call made on the client or on the UserService, with its arguments
    fault,        \* the message of the Error thrown by the service call before any request
    service,      \* the UserService instance: baseEndpoint and defaultPagination
    state,        \* the UserTableState of the UserTable component
    tasks,        \* the async calls of the component that are suspended at an await
    issued,       \* history: how many async calls the component has started
    shown,        \* history: the last list load that succeeded, and what it returned
    now,          \* the clock, in ticks
    wait,         \* the delay of debounce / the limit of throttle
    timer,        \* the timeout set by the debounced / throttled function
    inThrottle,   \* let inThrottle of throttle
    trace,        \* history: the calls of the returned function and of func, with their time
    truncArgs,    \* the arguments of a truncateString call
    truncResult   \* what the truncateString call returned

\* the variables of one ApiClient and of the call in progress on it
pipelineVars == <<pc, config, retryConfig, attempt, lastError, result, log, lastFailure,
                  response, clientConfig, ctorConfig>>

\* the client, the service and the call in progress on them
clientVars == <<pipelineVars, svcCall, fault, service>>

\* the UserTable component
tableVars == <<state, tasks, issued, shown>>

\* the closures of debounce and throttle, and a call of truncateString
utilVars == <<now, wait, timer, inThrottle, trace, truncArgs, truncResult>>

vars == <<clientVars, tableVars, utilVars>>

----------------------------------------------------------------------------
(* Bounds *)

MaxAttempts == 3
MaxHdrLen == 2

\* Program constants
DefaultAttempts == 3
DefaultDelay == 1000

----------------------------------------------------------------------------
(* JavaScript values *)

UNDEFINED == "<undefined>"

Num(n) == [t |-> "num", v |-> n]
NaN == [t |-> "nan", v |-> 0]
UndefinedNum == [t |-> "undefined", v |-> 0]

\* JS truthiness of a string-like value: undefined and "" are falsy.
Truthy(s) == s # UNDEFINED /\ s # ""

\* a || b on string-like values
OrElse(a, b) == IF Truthy(a) THEN a ELSE b

----------------------------------------------------------------------------
(* Inputs *)

HttpMethod == {"GET", "POST", "PUT", "PATCH", "DELETE"}

Delays == {0, 1000}

\* attempt counts, with those the source does not guard against (<= 0)
AttemptCounts == {-1} \cup 0..MaxAttempts

RetryPolicies == [attempts : AttemptCounts, delay : Delays]

\* Statuses axios rejects with (the default validateStatus accepts 200..299 only).
ErrorStatuses == {304, 400, 499, 500}

NoResponseField == [present |-> FALSE, status |-> 0, message |-> UNDEFINED]

\* error.response of an error that carries a response; message is
\* error.response.data?.message
ResponseFields == [present : {TRUE}, status : ErrorStatuses,
                   message : {UNDEFINED, "", "Not found"}]

\* The remote endpoint answered with an error status.
ResponseErrors == [defined : {TRUE}, response : ResponseFields, request : {TRUE},
                   code : {"ERR_BAD_RESPONSE", "ECONNABORTED"},
                   message : {"Request failed"}]

\* The request was sent but no response arrived.
NoResponseErrors == [defined : {TRUE}, response : {NoResponseField}, request : {TRUE},
                     code : {"ERR_NETWORK", "ECONNABORTED"},
                     message : {"Network Error"}]

\* The failure happened before the request could be sent.
LocalErrors == [defined : {TRUE}, response : {NoResponseField}, request : {FALSE},
                code : {UNDEFINED},
                message : {"", "Invalid URL"}]

TransportErrors == ResponseErrors \cup NoResponseErrors \cup LocalErrors

\* the value of `let lastError: any;` before any assignment
UndefinedError == [defined |-> FALSE, response |-> NoResponseField, request |-> FALSE,
                   code |-> UNDEFINED, message |-> UNDEFINED]

\* Header values: strings over a small alphabet.
Chars == {"0", "7", "a", "-", " "}

RECURSIVE StringsOfLen(_)
StringsOfLen(n) ==
    IF n = 0 THEN {<<>>}
    ELSE {Append(s, c) : s \in StringsOfLen(n - 1), c \in Chars}

RECURSIVE StringsUpTo(_)
StringsUpTo(n) == IF n = 0 THEN StringsOfLen(0) ELSE StringsOfLen(n) \cup StringsUpTo(n - 1)

AbsentHeader == [present |-> FALSE, value |-> <<>>]
Header(s) == [present |-> TRUE, value |-> s]

HeaderNames == {"x-total-count", "x-page", "x-limit"}

AllHeaderValues == {AbsentHeader} \cup {Header(s) : s \in StringsUpTo(MaxHdrLen)}

FewHeaderValues == {AbsentHeader, Header(<<"7">>), Header(<<"a">>)}

\* Header sets of the responses the transport produces in the retry specification.
FewHeaders ==
    { [n \in HeaderNames |-> AbsentHeader],
      [n \in HeaderNames |-> Header(<<"7">>)],
      [n \in HeaderNames |-> IF n = "x-page" THEN Header(<<"a">>) ELSE Header(<<"7", "0">>)] }

NoResponse == [status |-> 0, data |-> UNDEFINED, headers |-> [n \in HeaderNames |-> AbsentHeader]]

Responses == [status : {200, 204}, data : {UNDEFINED, "payload"}, headers : FewHeaders]

----------------------------------------------------------------------------
(* Envelopes: ApiResponse<T> *)

NoMeta == [total |-> UndefinedNum, page |-> UndefinedNum, limit |-> UndefinedNum]

NoEnvelope == [success |-> FALSE, data |-> UNDEFINED, error |-> UNDEFINED,
               statusCode |-> 0, hasMeta |-> FALSE, meta |-> NoMeta]

Pending == [kind |-> "pending", env |-> NoEnvelope]
Resolved(e) == [kind |-> "resolved", env |-> e]
\* the promise rejects (an exception escapes request())
Rejected == [kind |-> "rejected", env |-> NoEnvelope]

----------------------------------------------------------------------------
(* parseInt(string), radix 10.  The alphabet Chars has no "x", so the      *)
(* "0x" prefix that switches parseInt to radix 16 cannot occur.            *)

Digits == {"0", "1", "2", "3", "4", "5", "6", "7", "8", "9"}

DigitVal(c) ==
    CASE c = "0" -> 0 [] c = "1" -> 1 [] c = "2" -> 2 [] c = "3" -> 3 [] c = "4" -> 4
      [] c = "5" -> 5 [] c = "6" -> 6 [] c = "7" -> 7 [] c = "8" -> 8 [] c = "9" -> 9

\* leading white space is skipped
RECURSIVE TrimStart(_)
TrimStart(s) == IF s # <<>> /\ Head(s) = " " THEN TrimStart(Tail(s)) ELSE s

\* the longest prefix made of digits
RECURSIVE DigitPrefix(_)
DigitPrefix(s) ==
    IF s # <<>> /\ Head(s) \in Digits THEN <<Head(s)>> \o DigitPrefix(Tail(s)) ELSE <<>>

RECURSIVE DecimalValue(_, _)
DecimalValue(s, acc) ==
    IF s = <<>> THEN acc ELSE DecimalValue(Tail(s), 10 * acc + DigitVal(Head(s)))

parseInt(s) ==
    LET t == TrimStart(s)
        signed == t # <<>> /\ Head(t) \in {"-", "+"}
        negative == t # <<>> /\ Head(t) = "-"
        u == IF signed THEN Tail(t) ELSE t
        d == DigitPrefix(u)
    IN  IF d = <<>> THEN NaN
        ELSE Num(IF negative THEN 0 - DecimalValue(d, 0) ELSE DecimalValue(d, 0))

----------------------------------------------------------------------------
(* ApiClient.parseResponse *)

\* response.headers[name] ? parseInt(response.headers[name]) : undefined
\* (a missing header is undefined and an empty one is "": both falsy)
metaField(h) ==
    IF h.present /\ h.value # <<>> THEN parseInt(h.value) ELSE UndefinedNum

parseResponse(resp) ==
    [success |-> TRUE,
     data |-> resp.data,
     error |-> UNDEFINED,
     statusCode |-> resp.status,
     hasMeta |-> TRUE,
     meta |-> [total |-> metaField(resp.headers["x-total-count"]),
               page |-> metaField(resp.headers["x-page"]),
               limit |-> metaField(resp.headers["x-limit"])]]

----------------------------------------------------------------------------
(* ApiClient.handleError *)

\* apiError with the no-response test made before the response test
apiError_requestFirst(error) ==
    IF error.request
    THEN [message |-> "No response received from server",
          statusCode |-> 0]
    ELSE IF error.response.present
    THEN [message |-> OrElse(error.response.message, "Server error occurred"),
          statusCode |-> error.response.status]
    ELSE [message |-> OrElse(error.message, "An unexpected error occurred"),
          statusCode |-> 0]

\* The ApiError built by the three branches (its code and details fields are
\* computed by the source and never copied into the envelope).
apiError(error) ==
    IF error.response.present
    THEN [message |-> OrElse(error.response.message, "Server error occurred"),
          statusCode |-> error.response.status]
    ELSE IF error.request
    THEN [message |-> "No response received from server",
          statusCode |-> 0]
    ELSE [message |-> OrElse(error.message, "An unexpected error occurred"),
          statusCode |-> 0]

\* handleError without its final else branch: apiError stays unassigned and
\* reading apiError.message raises
handleError_noElse(error) ==
    IF ~error.defined \/ (~error.response.present /\ ~error.request) THEN Rejected
    ELSE Resolved([success |-> FALSE,
                   data |-> UNDEFINED,
                   error |-> apiError(error).message,
                   statusCode |-> apiError(error).statusCode,
                   hasMeta |-> FALSE,
                   meta |-> NoMeta])

\* handleError returning the error body as the envelope's data
handleError_withData(error) ==
    IF ~error.defined THEN Rejected
    ELSE Resolved([success |-> FALSE,
                   data |-> IF error.response.present THEN "details" ELSE UNDEFINED,
                   error |-> apiError(error).message,
                   statusCode |-> apiError(error).statusCode,
                   hasMeta |-> FALSE,
                   meta |-> NoMeta])

\* Reading error.response of an undefined error raises a TypeError, which
\* escapes the catch block of request().
handleError(error) ==
    IF ~error.defined THEN Rejected
    ELSE Resolved([success |-> FALSE,
                   data |-> UNDEFINED,
                   error |-> apiError(error).message,
                   statusCode |-> apiError(error).statusCode,
                   hasMeta |-> FALSE,
                   meta |-> NoMeta])

----------------------------------------------------------------------------
(* ApiClient constructor *)

AbsentRetry == [present |-> FALSE, attempts |-> 0, delay |-> 0]
Retry(p) == [present |-> TRUE, attempts |-> p.attempts, delay |-> p.delay]

\* this.config = { retry: { attempts: 3, delay: 1000 }, ...config }
constructor(cfg) ==
    [retry |-> IF cfg.retry.present THEN cfg.retry
               ELSE Retry([attempts |-> DefaultAttempts, delay |-> DefaultDelay])]

\* configurations the client is constructed with
ClientConfigs == [retry : {AbsentRetry, Retry([attempts |-> 2, delay |-> 0])}]

\* options.headers: a set of <<name, value>> pairs, or undefined
AbsentHeaders == [present |-> FALSE, entries |-> {}]
Headers(h) == [present |-> TRUE, entries |-> h]

\* options = {}
NoOptions == [retry |-> AbsentRetry, headers |-> AbsentHeaders]

\* per-call options of the calls made directly on the client
RequestOptions == [retry : {AbsentRetry} \cup {Retry(p) : p \in RetryPolicies},
                   headers : {AbsentHeaders}]

\* data / params of a request: undefined, or a record tagged with its kind
NoData == [kind |-> "undefined"]
RawData == [kind |-> "raw"]

\* a URL is the sequence of the pieces it was concatenated from
Url(base) == <<base>>

NoCall == [op |-> "none"]

----------------------------------------------------------------------------
(* UserService: types and constructor (src/unnamed/part_001)               *)

\* Program constants
DefaultPage == 1
DefaultLimit == 20
MinPasswordLength == 8

\* Bounds
MaxEmailLen == 5
MaxPwdLen == 9

\* a string given character by character, or undefined
UndefStr == [present |-> FALSE, chars |-> <<>>]
Str(cs) == [present |-> TRUE, chars |-> cs]

\* !s for such a string: undefined and "" are falsy
Falsy(s) == ~s.present \/ s.chars = <<>>

RECURSIVE SeqsOfLen(_, _)
SeqsOfLen(alphabet, n) ==
    IF n = 0 THEN {<<>>}
    ELSE {Append(q, c) : q \in SeqsOfLen(alphabet, n - 1), c \in alphabet}

RECURSIVE SeqsUpTo(_, _)
SeqsUpTo(alphabet, n) ==
    IF n = 0 THEN {<<>>} ELSE SeqsOfLen(alphabet, n) \cup SeqsUpTo(alphabet, n - 1)

\* a Date, and the text toISOString() makes of it
UndefDate == [t |-> "undefined", v |-> 0]
Date(n) == [t |-> "date", v |-> n]
IsoText(n) == [t |-> "iso", v |-> n]
toISOString(d) == IsoText(d.v)

\* FilterParams.dateRange: { start: Date; end: Date }
UndefRange == [t |-> "undefined", start |-> UndefDate, end |-> UndefDate]
DateRange(a, b) == [t |-> "range", start |-> Date(a), end |-> Date(b)]

\* PaginationParams; an absent property is undefined
NoPagination == [page |-> UndefinedNum, limit |-> UndefinedNum,
                 sortBy |-> UNDEFINED, sortOrder |-> UNDEFINED]

\* { ...a, ...b } on PaginationParams
spreadPagination(a, b) ==
    [page |-> IF b.page = UndefinedNum THEN a.page ELSE b.page,
     limit |-> IF b.limit = UndefinedNum THEN a.limit ELSE b.limit,
     sortBy |-> IF b.sortBy = UNDEFINED THEN a.sortBy ELSE b.sortBy,
     sortOrder |-> IF b.sortOrder = UNDEFINED THEN a.sortOrder ELSE b.sortOrder]

\* UserService constructor
UserService(cfg) ==
    [baseEndpoint |-> OrElse(cfg.baseEndpoint, "/users"),
     defaultPagination |->
        spreadPagination([page |-> Num(DefaultPage), limit |-> Num(DefaultLimit),
                          sortBy |-> "createdAt", sortOrder |-> "desc"],
                         cfg.defaultPagination)]

NoServiceConfig == [baseEndpoint |-> UNDEFINED, defaultPagination |-> NoPagination]

\* configurations the service is constructed with
ServiceConfigs ==
    { NoServiceConfig,
      [baseEndpoint |-> "/api/v1/users",
       defaultPagination |-> [NoPagination EXCEPT !.limit = Num(25)]],
      [baseEndpoint |-> "",
       defaultPagination |-> [NoPagination EXCEPT !.page = Num(3), !.sortBy = "username",
                                                  !.sortOrder = "asc"]] }

\* UserSearchOptions: pagination and filters; an absent property is undefined
NoSearchOptions ==
    [page |-> UndefinedNum, limit |-> UndefinedNum, sortBy |-> UNDEFINED,
     sortOrder |-> UNDEFINED, search |-> UNDEFINED, status |-> UNDEFINED,
     createdAfter |-> UndefDate, createdBefore |-> UndefDate, dateRange |-> UndefRange]

SearchOptions ==
    [page : {UndefinedNum, Num(2)}, limit : {UndefinedNum, Num(10)},
     sortBy : {UNDEFINED, "email"}, sortOrder : {UNDEFINED, "asc"},
     search : {UNDEFINED, "john"}, status : {UNDEFINED, "active"},
     createdAfter : {UndefDate, Date(1)}, createdBefore : {UndefDate, Date(2)},
     dateRange : {UndefRange, DateRange(1, 2)}]

\* CreateUserData
EmailChars == {"a", "@", ".", " "}

GoodEmail == Str(<<"a", "@", "a", ".", "a">>)
GoodPassword == Str([i \in 1..MinPasswordLength |-> "p"])

GoodUserData == [username |-> "johndoe", email |-> GoodEmail, fullName |-> "John Doe",
                 password |-> GoodPassword]

Emails == {UndefStr} \cup {Str(e) : e \in SeqsUpTo(EmailChars, MaxEmailLen)}
Passwords == {UndefStr} \cup {Str([i \in 1..n |-> "p"]) : n \in 0..MaxPwdLen}
Names == {UNDEFINED, "", "johndoe"}

\* every email with good other fields, every password with good other
\* fields, and all combinations of a few values of each field
CreateUserInputs ==
    {[GoodUserData EXCEPT !.email = e] : e \in Emails}
    \cup {[GoodUserData EXCEPT !.password = w] : w \in Passwords}
    \cup [username : Names, fullName : Names,
          email : {UndefStr, Str(<<>>), Str(<<"a", "@", "a">>), GoodEmail},
          password : {UndefStr, Str(<<>>), Str(<<"p", "p", "p", "p", "p">>), GoodPassword}]

UserIds == {"u1", "u2"}
UserIdLists == {<<>>, <<"u1">>, <<"u2", "u1">>}
UpdateDatas == {[isActive |-> FALSE], [fullName |-> "Jane Doe"]}

----------------------------------------------------------------------------
(* History *)

\* What one failed transport call looked like to the retry loop.
FailureClass(error) ==
    IF error.response.present
    THEN IF error.response.status >= 400 /\ error.response.status < 500
         THEN IF error.code = "ECONNABORTED" THEN "timeout4xx" ELSE "client"
         ELSE IF error.response.status >= 500 THEN "server" ELSE "other"
    ELSE IF error.request
         THEN IF error.code = "ECONNABORTED" THEN "timeout" ELSE "noResponse"
         ELSE "local"

Call(class) == [kind |-> "call", class |-> class, ms |-> 0]
Wait(ms) == [kind |-> "wait", class |-> "wait", ms |-> ms]

----------------------------------------------------------------------------
(* ApiClient.request and ApiClient.makeRequestWithRetry *)

NoConfig == [method |-> "GET", url |-> <<>>, data |-> NoData, params |-> NoData,
             headers |-> AbsentHeaders, retry |-> AbsentRetry]

\* buildConfig attaching the caller's data as params whatever the method
buildConfig_paramsAlways(method, url, data, options) ==
    [method |-> method,
     url |-> url,
     data |-> IF method # "GET" THEN data ELSE NoData,
     params |-> data,
     headers |-> options.headers,
     retry |-> options.retry]

\* buildConfig that does not copy the headers of the options
buildConfig_noHeaders(method, url, data, options) ==
    [method |-> method,
     url |-> url,
     data |-> IF method # "GET" THEN data ELSE NoData,
     params |-> IF method = "GET" THEN data ELSE NoData,
     headers |-> AbsentHeaders,
     retry |-> options.retry]

\* The AxiosRequestConfig of request(): data for every method but GET,
\* params for GET, and the properties of options (headers, retry) spread
\* over it.  The timeout and withCredentials properties are passed through
\* to the transport and play no part in the pipeline.
buildConfig(method, url, data, options) ==
    [method |-> method,
     url |-> url,
     data |-> IF method # "GET" THEN data ELSE NoData,
     params |-> IF method = "GET" THEN data ELSE NoData,
     headers |-> options.headers,
     retry |-> options.retry]

\* isClientError with an exclusive lower bound
isClientError_above400(error) ==
    /\ error.response.present
    /\ error.response.status > 400
    /\ error.response.status < 500
    /\ error.code # "ECONNABORTED"

\* isClientError without the timeout exception
isClientError_noTimeoutCase(error) ==
    /\ error.response.present
    /\ error.response.status >= 400
    /\ error.response.status < 500

\* error.response?.status >= 400 && error.response?.status < 500 &&
\* error.code !== 'ECONNABORTED'
isClientError(error) ==
    /\ error.response.present
    /\ error.response.status >= 400
    /\ error.response.status < 500
    /\ error.code # "ECONNABORTED"

\* const retryConfig = options.retry || this.config.retry
effectiveRetry(options, cfg) ==
    IF options.retry.present THEN options.retry ELSE cfg.retry

----------------------------------------------------------------------------
(* debounce, throttle and truncateString (src/src/utils/index.ts).         *)
(*                                                                         *)
(* Time is a clock of ticks.  A timeout set for d ticks fires when the     *)
(* clock shows at least its due time: setTimeout promises no earlier, and  *)
(* the callback runs when the event loop gets to it.  A string is a        *)
(* sequence of one-character strings.                                      *)

MaxTime == 3       \* ticks of the clock
MaxWait == 2       \* delay of debounce, limit of throttle
MaxEvents == 3     \* calls of the returned function
MaxStrLen == 4     \* length of str
MaxTruncLen == 5   \* maxLength

FuncArgs == {"a", "b"}

NoTimer == [armed |-> FALSE, due |-> 0, args |-> "a"]
Timeout(due, args) == [armed |-> TRUE, due |-> due, args |-> args]

\* history entries: a call of the returned function (blocked: inThrottle was
\* set when it was made), an invocation of func
Called(args, blocked) == [kind |-> "call", at |-> now, args |-> args, blocked |-> blocked]
Invoked(args) == [kind |-> "invoke", at |-> now, args |-> args, blocked |-> FALSE]

TruncChars == {"a", " "}

RECURSIVE TruncStrings(_)
TruncStrings(n) ==
    IF n = 0 THEN {<<>>}
    ELSE TruncStrings(n - 1)
             \cup {Append(t, c) : t \in {u \in TruncStrings(n - 1) : Len(u) = n - 1},
                                  c \in TruncChars}

\* options.ellipsis: absent (the default '...'), or given
DefaultEllipsis == <<".", ".", ".">>
Ellipses == {<<>>, <<"~">>, DefaultEllipsis}

TruncInputs == [str : TruncStrings(MaxStrLen), maxLength : 0..MaxTruncLen,
                ellipsis : Ellipses, truncateAtWord : BOOLEAN]

NoTruncArgs == [str |-> <<>>, maxLength |-> 0, ellipsis |-> DefaultEllipsis,
                truncateAtWord |-> FALSE]
NoTruncResult == [returned |-> FALSE, value |-> <<>>]

UtilInit ==
    /\ now = 0
    /\ wait = 0
    /\ timer = NoTimer
    /\ inThrottle = FALSE
    /\ trace = <<>>
    /\ truncArgs = NoTruncArgs
    /\ truncResult = NoTruncResult

----------------------------------------------------------------------------
(* The UserTable component (src/unnamed/part_000).                         *)
(*                                                                         *)
(* A user record is its id, the list of users a list of ids.  The state   *)
(* is the UserTableState without stats, which loadStats alone reads and    *)
(* writes.  An async handler suspended at an await is a task: it holds     *)
(* the values its closure captured when the handler was called.            *)

MaxTasks == 3     \* async calls the component starts
MaxPage == 2      \* pages reached with Next

NULL == "<null>"

\* the lists of users the service returns
UserLists == {<<>>, <<"u1", "u2">>, <<"u2">>}

\* response.data of a list call: undefined, or a list of users
NoUsers == [present |-> FALSE, users |-> <<>>]
Users(list) == [present |-> TRUE, users |-> list]

\* How a call on the service settles for the component: the promise resolves
\* with an envelope, or rejects with an Error (isError) or another value.
Returned(success, data, error) ==
    [kind |-> "returned", success |-> success, data |-> data, error |-> error,
     isError |-> FALSE]
Thrown(isError, message) ==
    [kind |-> "thrown", success |-> FALSE, data |-> NoUsers, error |-> message,
     isError |-> isError]

ListOutcomes ==
    {Returned(TRUE, Users(l), UNDEFINED) : l \in UserLists}
        \cup {Returned(TRUE, NoUsers, UNDEFINED),
              Returned(FALSE, NoUsers, "Server error"),
              Returned(FALSE, NoUsers, UNDEFINED),
              Thrown(TRUE, "Network Error")}

MutationOutcomes ==
    {Returned(TRUE, NoUsers, UNDEFINED),
     Returned(FALSE, NoUsers, UNDEFINED),
     Thrown(TRUE, "Network Error")}

\* the initialPagination prop: the default, or a page size of two
DefaultInitialPagination ==
    [page |-> 1, limit |-> 20, sortBy |-> "createdAt", sortOrder |-> "desc"]
InitialPaginations ==
    {DefaultInitialPagination, [DefaultInitialPagination EXCEPT !.limit = 2]}

NoFilters == [status |-> UNDEFINED]

\* useState<UserTableState>({...})
initialState(initialPagination, initialFilters) ==
    [users |-> <<>>,
     pagination |-> initialPagination,
     filters |-> initialFilters,
     loading |-> FALSE,
     error |-> NULL,
     selectedUserIds |-> <<>>,
     searchQuery |-> ""]

NoQuery == [pagination |-> DefaultInitialPagination, filters |-> NoFilters, searchQuery |-> ""]
\* before any load has succeeded
NoLoad == [id |-> 0, query |-> NoQuery, users |-> <<>>, before |-> 0]

TableInit ==
    /\ state = initialState(DefaultInitialPagination, NoFilters)
    /\ tasks = {}
    /\ issued = 0
    /\ shown = NoLoad

Init ==
    /\ pc = "idle"
    /\ ctorConfig \in ClientConfigs
    /\ clientConfig = constructor(ctorConfig)
    /\ svcCall = NoCall
    /\ fault = UNDEFINED
    /\ service = UserService(NoServiceConfig)
    /\ TableInit
    /\ UtilInit
    /\ config = NoConfig
    /\ retryConfig = AbsentRetry
    /\ attempt = 0
    /\ lastError = UndefinedError
    /\ result = Pending
    /\ log = <<>>
    /\ lastFailure = UndefinedError
    /\ response = NoResponse

\* request that keeps the policy of the call as the client's policy
request_storesRetry(method, url, data, options) ==
    /\ pc = "idle"
    /\ config' = buildConfig(method, url, data, options)
    /\ retryConfig' = effectiveRetry(options, clientConfig)
    /\ clientConfig' = [retry |-> retryConfig']
    /\ attempt' = 1
    /\ lastError' = UndefinedError
    /\ lastFailure' = UndefinedError
    /\ log' = <<>>
    /\ response' = NoResponse
    /\ IF 1 <= retryConfig'.attempts
       THEN pc' = "transport" /\ result' = Pending
       ELSE pc' = "done" /\ result' = handleError(UndefinedError)
    /\ UNCHANGED <<ctorConfig, service, tableVars, utilVars>>

\* request() up to the first await: builds the config, enters
\* makeRequestWithRetry and tests the loop condition for attempt = 1.  When
\* the loop body is never entered, `throw lastError` throws undefined.
\* request whose loop starts at attempt = 0
request_startsAtZero(method, url, data, options) ==
    /\ pc = "idle"
    /\ config' = buildConfig(method, url, data, options)
    /\ retryConfig' = effectiveRetry(options, clientConfig)
    /\ attempt' = 0
    /\ lastError' = UndefinedError
    /\ lastFailure' = UndefinedError
    /\ log' = <<>>
    /\ response' = NoResponse
    /\ IF 0 <= retryConfig'.attempts
       THEN pc' = "transport" /\ result' = Pending
       ELSE pc' = "done" /\ result' = handleError(UndefinedError)
    /\ UNCHANGED <<clientConfig, ctorConfig, service, tableVars, utilVars>>

request(method, url, data, options) ==
    /\ pc = "idle"
    /\ config' = buildConfig(method, url, data, options)
    /\ retryConfig' = effectiveRetry(options, clientConfig)
    /\ attempt' = 1
    /\ lastError' = UndefinedError
    /\ lastFailure' = UndefinedError
    /\ log' = <<>>
    /\ response' = NoResponse
    /\ IF 1 <= retryConfig'.attempts
       THEN pc' = "transport" /\ result' = Pending
       ELSE pc' = "done" /\ result' = handleError(UndefinedError)
    /\ UNCHANGED <<clientConfig, ctorConfig, service, tableVars, utilVars>>

\* transportResolves that reports a failure remembered from an earlier attempt
transportResolves_surfacesLastError(resp) ==
    /\ pc = "transport"
    /\ response' = resp
    /\ result' = IF lastError.defined THEN handleError(lastError)
                 ELSE Resolved(parseResponse(resp))
    /\ log' = Append(log, Call("ok"))
    /\ pc' = "done"
    /\ UNCHANGED <<config, retryConfig, attempt, lastError, lastFailure>>
    /\ UNCHANGED <<clientConfig, ctorConfig, svcCall, fault, service, tableVars, utilVars>>

\* await this.axiosInstance.request(config) resolves: makeRequestWithRetry
\* returns the response and request() returns parseResponse(response).
transportResolves(resp) ==
    /\ pc = "transport"
    /\ response' = resp
    /\ result' = Resolved(parseResponse(resp))
    /\ log' = Append(log, Call("ok"))
    /\ pc' = "done"
    /\ UNCHANGED <<config, retryConfig, attempt, lastError, lastFailure>>
    /\ UNCHANGED <<clientConfig, ctorConfig, svcCall, fault, service, tableVars, utilVars>>

\* transportRejects that keeps the first error instead of the last
transportRejects_keepsFirst(error) ==
    /\ pc = "transport"
    /\ lastError' = IF lastError.defined THEN lastError ELSE error
    /\ lastFailure' = error
    /\ log' = Append(log, Call(FailureClass(error)))
    /\ IF isClientError(error) \/ attempt = retryConfig.attempts
       THEN /\ pc' = "done"
            /\ result' = handleError(lastError')
       ELSE /\ pc' = "delay"
            /\ result' = result
    /\ UNCHANGED <<config, retryConfig, attempt, response>>
    /\ UNCHANGED <<clientConfig, ctorConfig, svcCall, fault, service, tableVars, utilVars>>

\* transportRejects without the last-attempt break
transportRejects_noLastAttemptBreak(error) ==
    /\ pc = "transport"
    /\ lastError' = error
    /\ lastFailure' = error
    /\ log' = Append(log, Call(FailureClass(error)))
    /\ IF isClientError(error)
       THEN /\ pc' = "done"
            /\ result' = handleError(lastError')
       ELSE /\ pc' = "delay"
            /\ result' = result
    /\ UNCHANGED <<config, retryConfig, attempt, response>>
    /\ UNCHANGED <<clientConfig, ctorConfig, svcCall, fault, service, tableVars, utilVars>>

\* transportRejects that also stops on a failure carrying neither a response
\* nor a request
transportRejects_breaksOnLocal(error) ==
    /\ pc = "transport"
    /\ lastError' = error
    /\ lastFailure' = error
    /\ log' = Append(log, Call(FailureClass(error)))
    /\ IF \/ isClientError(error)
          \/ (~error.response.present /\ ~error.request)
          \/ attempt = retryConfig.attempts
       THEN /\ pc' = "done"
            /\ result' = handleError(lastError')
       ELSE /\ pc' = "delay"
            /\ result' = result
    /\ UNCHANGED <<config, retryConfig, attempt, response>>
    /\ UNCHANGED <<clientConfig, ctorConfig, svcCall, fault, service, tableVars, utilVars>>

\* await this.axiosInstance.request(config) rejects: the catch block.
transportRejects(error) ==
    /\ pc = "transport"
    /\ lastError' = error
    /\ lastFailure' = error
    /\ log' = Append(log, Call(FailureClass(error)))
    /\ IF isClientError(error) \/ attempt = retryConfig.attempts
       THEN \* break; throw lastError; caught by request()
            /\ pc' = "done"
            /\ result' = handleError(lastError')
       ELSE \* await new Promise(resolve => setTimeout(resolve, delay))
            /\ pc' = "delay"
            /\ result' = result
    /\ UNCHANGED <<config, retryConfig, attempt, response>>
    /\ UNCHANGED <<clientConfig, ctorConfig, svcCall, fault, service, tableVars, utilVars>>

\* the delay elapses: attempt++ and the loop condition
delayElapses ==
    /\ pc = "delay"
    /\ log' = Append(log, Wait(retryConfig.delay))
    /\ attempt' = attempt + 1
    /\ IF attempt' <= retryConfig.attempts
       THEN pc' = "transport" /\ result' = result
       ELSE pc' = "done" /\ result' = handleError(lastError)
    /\ UNCHANGED <<config, retryConfig, lastError, lastFailure, response>>
    /\ UNCHANGED <<clientConfig, ctorConfig, svcCall, fault, service, tableVars, utilVars>>

\* the caller has received the settled promise or the thrown Error: the
\* locals of the call are gone and the client is ready for the next call
settled ==
    /\ pc = "done" \/ fault # UNDEFINED
    /\ pc' = "idle"
    /\ config' = NoConfig
    /\ retryConfig' = AbsentRetry
    /\ attempt' = 0
    /\ lastError' = UndefinedError
    /\ result' = Pending
    /\ log' = <<>>
    /\ lastFailure' = UndefinedError
    /\ response' = NoResponse
    /\ svcCall' = NoCall
    /\ fault' = UNDEFINED
    /\ UNCHANGED <<clientConfig, ctorConfig, service, tableVars, utilVars>>

\* a call made directly on the client
directRequest(method, url, data, options) ==
    /\ svcCall = NoCall
    /\ request(method, url, data, options)
    /\ svcCall' = [op |-> "request", method |-> method, url |-> url, data |-> data,
                   options |-> options]
    /\ fault' = UNDEFINED

\* ApiClient.get / post / delete
get(url, params) == request("GET", url, params, NoOptions)
post(url, data) == request("POST", url, data, NoOptions)
delete(url, options) == request("DELETE", url, NoData, options)

----------------------------------------------------------------------------
(* UserService operations (src/unnamed/part_001)                           *)

\* /^[^\s@]+@[^\s@]+\.[^\s@]+$/.test(e): some "@" at i and some "." at j
\* split e into three non-empty runs free of white space and "@"
emailRegexTest(e) ==
    \E i \in 1..Len(e), j \in 1..Len(e) :
        /\ e[i] = "@" /\ e[j] = "."
        /\ 2 <= i /\ i + 2 <= j /\ j + 1 <= Len(e)
        /\ \A k \in 1..Len(e) : k # i => e[k] \notin {" ", "@"}

\* createUserFault rejecting a password of exactly the minimum length
createUserFault_offByOne(userData) ==
    IF \/ ~Truthy(userData.username) \/ Falsy(userData.email)
       \/ ~Truthy(userData.fullName) \/ Falsy(userData.password)
    THEN "All required fields must be provided"
    ELSE IF ~emailRegexTest(userData.email.chars)
    THEN "Invalid email format"
    ELSE IF Len(userData.password.chars) <= MinPasswordLength
    THEN "Password must be at least 8 characters long"
    ELSE UNDEFINED

\* the message of the Error createUser throws, or undefined
createUserFault(userData) ==
    IF \/ ~Truthy(userData.username) \/ Falsy(userData.email)
       \/ ~Truthy(userData.fullName) \/ Falsy(userData.password)
    THEN "All required fields must be provided"
    ELSE IF ~emailRegexTest(userData.email.chars)
    THEN "Invalid email format"
    ELSE IF Len(userData.password.chars) < MinPasswordLength
    THEN "Password must be at least 8 characters long"
    ELSE UNDEFINED

\* bulkUpdateUsersFault that accepts every list
bulkUpdateUsersFault_noCheck(userIds) == UNDEFINED

\* the message of the Error bulkUpdateUsers throws, or undefined
bulkUpdateUsersFault(userIds) ==
    IF Len(userIds) = 0 THEN "At least one user ID must be provided" ELSE UNDEFINED

\* bulkPayload without the update data
bulkPayload_idsOnly(userIds, updateData) == [userIds |-> userIds]

\* const payload = { userIds, updateData }
bulkPayload(userIds, updateData) == [userIds |-> userIds, updateData |-> updateData]

\* const options = force ? { headers: { 'X-Force-Delete': 'true' } } : {}
deleteOptions(force) ==
    IF force THEN [retry |-> AbsentRetry, headers |-> Headers({<<"X-Force-Delete", "true">>})]
    ELSE NoOptions

\* the params of getUsers: { ...this.defaultPagination, ...options } with
\* createdAfter / createdBefore replaced by their ISO text when given
getUsersParams(options) ==
    LET p == spreadPagination(service.defaultPagination, options)
    IN  [page |-> p.page, limit |-> p.limit, sortBy |-> p.sortBy, sortOrder |-> p.sortOrder,
         search |-> options.search,
         status |-> options.status,
         createdAfter |-> IF options.createdAfter.t = "undefined" THEN UndefDate
                          ELSE toISOString(options.createdAfter),
         createdBefore |-> IF options.createdBefore.t = "undefined" THEN UndefDate
                           ELSE toISOString(options.createdBefore),
         dateRange |-> options.dateRange]

\* the searchOptions of searchUsers:
\* { ...this.defaultPagination, ...options, search: searchTerm }
searchUsersOptions(searchTerm, options) ==
    LET p == spreadPagination(service.defaultPagination, options)
    IN  [options EXCEPT !.page = p.page, !.limit = p.limit, !.sortBy = p.sortBy,
                        !.sortOrder = p.sortOrder, !.search = searchTerm]

\* A service operation up to its first await: it throws f, or makes the
\* request given by call.
serviceCall(call, f, req) ==
    /\ pc = "idle"
    /\ svcCall = NoCall
    /\ svcCall' = call
    /\ fault' = f
    /\ IF f # UNDEFINED
       THEN UNCHANGED <<pipelineVars, service, tableVars, utilVars>>
       ELSE req

createUser(userData) ==
    serviceCall([op |-> "createUser", userData |-> userData],
                createUserFault(userData),
                post(Url(service.baseEndpoint), userData))

deleteUser(userId, force) ==
    serviceCall([op |-> "deleteUser", userId |-> userId, force |-> force],
                UNDEFINED,
                delete(<<service.baseEndpoint, "/", userId>>, deleteOptions(force)))

bulkUpdateUsers(userIds, updateData) ==
    serviceCall([op |-> "bulkUpdateUsers", userIds |-> userIds, updateData |-> updateData],
                bulkUpdateUsersFault(userIds),
                post(<<service.baseEndpoint, "/bulk-update">>,
                     bulkPayload(userIds, updateData)))

getUsers(options) ==
    serviceCall([op |-> "getUsers", options |-> options],
                UNDEFINED,
                get(Url(service.baseEndpoint), getUsersParams(options)))

searchUsers(searchTerm, options) ==
    serviceCall([op |-> "searchUsers", searchTerm |-> searchTerm, options |-> options],
                UNDEFINED,
                get(Url(service.baseEndpoint),
                    getUsersParams(searchUsersOptions(searchTerm, options))))

Next ==
    \/ \E m \in HttpMethod, o \in RequestOptions :
          directRequest(m, Url("/users"), NoData, o)
    \/ \E r \in Responses : transportResolves(r)
    \/ \E e \in TransportErrors : transportRejects(e)
    \/ delayElapses
    \/ settled

Spec == Init /\ [][Next]_vars

\* Every transport invocation settles and every delay elapses: the promise
\* of axiosInstance.request and the timer of setTimeout both complete.
TransportCompletes ==
    \/ \E r \in Responses : transportResolves(r)
    \/ \E e \in TransportErrors : transportRejects(e)

SpecLive == Spec /\ WF_vars(TransportCompletes) /\ WF_vars(delayElapses)

----------------------------------------------------------------------------
(* Header parsing: calls with the client's own retry policy whose first    *)
(* transport call resolves, the response carrying any header value for one *)
(* of the three pagination headers and a few values for the other two.     *)

ParseResponses ==
    { [status |-> 200, data |-> "payload", headers |-> [base EXCEPT ![n] = v]] :
        base \in [HeaderNames -> FewHeaderValues], n \in HeaderNames, v \in AllHeaderValues }

NextParse ==
    \/ \E m \in {"GET", "POST"} : directRequest(m, Url("/users"), NoData, NoOptions)
    \/ \E r \in ParseResponses : transportResolves(r)
    \/ settled

SpecParse == Init /\ [][NextParse]_vars

----------------------------------------------------------------------------
(* The requests the client is handed: calls made directly on the client    *)
(* with and without data, and the operations of a UserService constructed  *)
(* with any of ServiceConfigs.  The transport answers with one success or  *)
(* one of two failures.                                                    *)

InitService ==
    /\ pc = "idle"
    /\ ctorConfig \in ClientConfigs
    /\ clientConfig = constructor(ctorConfig)
    /\ svcCall = NoCall
    /\ fault = UNDEFINED
    /\ \E cfg \in ServiceConfigs : service = UserService(cfg)
    /\ TableInit
    /\ UtilInit
    /\ config = NoConfig
    /\ retryConfig = AbsentRetry
    /\ attempt = 0
    /\ lastError = UndefinedError
    /\ result = Pending
    /\ log = <<>>
    /\ lastFailure = UndefinedError
    /\ response = NoResponse

DirectOptions ==
    [retry : {AbsentRetry, Retry([attempts |-> 1, delay |-> 0])},
     headers : {AbsentHeaders, Headers({<<"Accept", "application/json">>})}]

ServiceResponses == {[status |-> 200, data |-> "payload",
                      headers |-> [n \in HeaderNames |-> AbsentHeader]]}

ServiceErrors ==
    {e \in ResponseErrors : /\ e.code = "ERR_BAD_RESPONSE"
                            /\ e.response.message = "Not found"
                            /\ e.response.status \in {400, 500}}

\* no call is in progress on the client
ClientFree == pc = "idle" /\ svcCall = NoCall

NextService ==
    \/ /\ ClientFree
       /\ \E m \in HttpMethod, d \in {NoData, RawData}, o \in DirectOptions :
             directRequest(m, Url("/users"), d, o)
    \/ /\ ClientFree
       /\ \E u \in CreateUserInputs : createUser(u)
    \/ /\ ClientFree
       /\ \E id \in UserIds, force \in BOOLEAN : deleteUser(id, force)
    \/ /\ ClientFree
       /\ \E ids \in UserIdLists, ud \in UpdateDatas : bulkUpdateUsers(ids, ud)
    \/ /\ ClientFree
       /\ \E o \in SearchOptions : getUsers(o)
    \/ /\ ClientFree
       /\ \E t \in {"", "john"}, o \in {x \in SearchOptions : x.search = UNDEFINED} :
             searchUsers(t, o)
    \/ \E r \in ServiceResponses : transportResolves(r)
    \/ \E e \in ServiceErrors : transportRejects(e)
    \/ delayElapses
    \/ settled

SpecService == InitService /\ [][NextService]_vars

----------------------------------------------------------------------------
(* UserTable: what is on screen, the handlers and the async calls.         *)
(*                                                                         *)
(* A handler that changes state.pagination, state.filters or               *)
(* state.searchQuery gives loadUsers a new identity, so the render that    *)
(* follows runs useEffect(loadUsers): the action of such a handler ends    *)
(* with that call of loadUsers, made on the state the handler left.        *)

\* what the closures of a render capture of the query
Query(st) == [pagination |-> st.pagination, filters |-> st.filters,
              searchQuery |-> st.searchQuery]

Task(kind, phase, query, userId, userIds) ==
    [id |-> issued + 1, kind |-> kind, phase |-> phase, query |-> query,
     userId |-> userId, userIds |-> userIds]

\* the three returns of the component: the spinner, the error with its
\* Retry button, or the table with its controls
view(st) ==
    IF st.loading /\ Len(st.users) = 0 THEN "loading"
    ELSE IF st.error # NULL /\ Truthy(st.error) /\ Len(st.users) = 0 THEN "error"
    ELSE "table"

Displayed(st) == {st.users[k] : k \in 1..Len(st.users)}
includes(list, x) == \E k \in 1..Len(list) : list[k] = x
filterOut(list, x) == SelectSeq(list, LAMBDA id : id # x)

\* loadUsers up to its await
loadUsers_begin(st) == [st EXCEPT !.loading = TRUE, !.error = NULL]

\* the message a handler's catch block stores: the Error thrown on a
\* failure envelope, or the one the service call rejected with
caught(o, envelopeFallback, catchFallback) ==
    IF o.kind = "returned" THEN OrElse(o.error, envelopeFallback)
    ELSE IF o.isError THEN o.error
    ELSE catchFallback

loaded(o) == o.kind = "returned" /\ o.success /\ o.data.present

\* loadUsers that drops the records on a failure
loadUsers_end_clearsOnFailure(st, o) ==
    IF loaded(o)
    THEN [st EXCEPT !.users = o.data.users, !.loading = FALSE]
    ELSE [st EXCEPT !.users = <<>>,
                    !.error = caught(o, "Failed to load users", "An unexpected error occurred"),
                    !.loading = FALSE]

\* loadUsers from its await on, getUsers having settled with o
loadUsers_end(st, o) ==
    IF loaded(o)
    THEN [st EXCEPT !.users = o.data.users, !.loading = FALSE]
    ELSE [st EXCEPT !.error = caught(o, "Failed to load users", "An unexpected error occurred"),
                    !.loading = FALSE]

\* the argument of userService.getUsers:
\* { ...state.pagination, ...state.filters, ...(state.searchQuery && { search }) }
getUsersOptions(query) ==
    [page |-> query.pagination.page, limit |-> query.pagination.limit,
     sortBy |-> query.pagination.sortBy, sortOrder |-> query.pagination.sortOrder,
     status |-> query.filters.status,
     search |-> IF Truthy(query.searchQuery) THEN query.searchQuery ELSE UNDEFINED]

\* loadUsers of the render before the change: its closure holds the old query
loadUsers_staleClosure(st) ==
    /\ issued < MaxTasks
    /\ state' = loadUsers_begin(st)
    /\ tasks' = tasks \cup {Task("load", "call", Query(state), "", <<>>)}
    /\ issued' = issued + 1
    /\ UNCHANGED <<shown, clientVars, utilVars>>

\* a call of loadUsers by the closure of the render of st
loadUsers(st) ==
    /\ issued < MaxTasks
    /\ state' = loadUsers_begin(st)
    /\ tasks' = tasks \cup {Task("load", "call", Query(st), "", <<>>)}
    /\ issued' = issued + 1
    /\ UNCHANGED <<shown, clientVars, utilVars>>

\* useEffect(() => { loadUsers(); }, [loadUsers]) after the first render
mount ==
    /\ issued = 0
    /\ loadUsers(state)

Mounted == issued > 0

\* the Search button (disabled while loading) and the Retry button
clickSearch ==
    /\ Mounted
    /\ \/ view(state) = "table" /\ ~state.loading
       \/ view(state) = "error"
    /\ loadUsers(state)

\* handleSearch that stays on the page
handleSearch_keepsPage(query) ==
    /\ Mounted
    /\ view(state) = "table"
    /\ loadUsers([state EXCEPT !.searchQuery = query])

handleSearch(query) ==
    /\ Mounted
    /\ view(state) = "table"
    /\ loadUsers([state EXCEPT !.searchQuery = query, !.pagination.page = 1])

handleFilterChange(newFilters) ==
    /\ Mounted
    /\ view(state) = "table"
    /\ loadUsers([state EXCEPT !.filters.status = newFilters.status,
                               !.pagination.page = 1])

\* a Partial<PaginationParams> that names no field
NoChange == [page |-> UndefinedNum, limit |-> UndefinedNum,
             sortBy |-> UNDEFINED, sortOrder |-> UNDEFINED]

\* { ...prev.pagination, ...newPagination }
mergePagination(pagination, newPagination) ==
    [page |-> IF newPagination.page # UndefinedNum THEN newPagination.page.v
              ELSE pagination.page,
     limit |-> IF newPagination.limit # UndefinedNum THEN newPagination.limit.v
               ELSE pagination.limit,
     sortBy |-> IF newPagination.sortBy # UNDEFINED THEN newPagination.sortBy
                ELSE pagination.sortBy,
     sortOrder |-> IF newPagination.sortOrder # UNDEFINED THEN newPagination.sortOrder
                   ELSE pagination.sortOrder]

handlePaginationChange(newPagination) ==
    /\ Mounted
    /\ view(state) = "table"
    /\ loadUsers([state EXCEPT !.pagination = mergePagination(@, newPagination)])

\* disabled={state.pagination.page <= 1} of the Previous button
previousDisabled(st) == st.pagination.page <= 1

\* a Next button that is also disabled by a full page
nextDisabled_fullPage(st) == Len(st.users) <= st.pagination.limit

\* disabled={state.users.length < state.pagination.limit} of the Next button
nextDisabled(st) == Len(st.users) < st.pagination.limit

\* the Previous and Next buttons
clickPrevious ==
    /\ ~previousDisabled(state)
    /\ handlePaginationChange([NoChange EXCEPT !.page = Num(state.pagination.page - 1)])

clickNext ==
    /\ ~nextDisabled(state)
    /\ state.pagination.page < MaxPage
    /\ handlePaginationChange([NoChange EXCEPT !.page = Num(state.pagination.page + 1)])

\* the sort field and sort direction selects
selectSortBy(value) ==
    handlePaginationChange([NoChange EXCEPT !.sortBy = value])

selectSortOrder(value) ==
    handlePaginationChange([NoChange EXCEPT !.sortOrder = value])

\* the page size select: { limit: parseInt(e.target.value), page: 1 }
selectPageSize(value) ==
    handlePaginationChange([NoChange EXCEPT !.limit = parseInt(value), !.page = Num(1)])

\* the checkbox of a row: e.target.checked is the opposite of what is shown
handleUserSelection(userId, selected) ==
    /\ Mounted
    /\ view(state) = "table"
    /\ userId \in Displayed(state)
    /\ selected = ~includes(state.selectedUserIds, userId)
    /\ state' = [state EXCEPT !.selectedUserIds =
                     IF selected THEN Append(@, userId) ELSE filterOut(@, userId)]
    /\ UNCHANGED <<tasks, issued, shown, clientVars, utilVars>>

\* the checkbox of the table header
handleBulkSelection(selected) ==
    /\ Mounted
    /\ view(state) = "table"
    /\ selected = ~(Len(state.selectedUserIds) = Len(state.users) /\ Len(state.users) > 0)
    /\ state' = [state EXCEPT !.selectedUserIds = IF selected THEN state.users ELSE <<>>]
    /\ UNCHANGED <<tasks, issued, shown, clientVars, utilVars>>

\* the Clear Selection button
clearSelection ==
    /\ Mounted
    /\ view(state) = "table"
    /\ Len(state.selectedUserIds) > 0
    /\ state' = [state EXCEPT !.selectedUserIds = <<>>]
    /\ UNCHANGED <<tasks, issued, shown, clientVars, utilVars>>

\* the Activate / Deactivate buttons, up to the await of bulkUpdateUsers
handleBulkUpdate ==
    /\ Mounted
    /\ view(state) = "table"
    /\ ~state.loading
    /\ Len(state.selectedUserIds) > 0
    /\ issued < MaxTasks
    /\ state' = [state EXCEPT !.loading = TRUE]
    /\ tasks' = tasks \cup {Task("bulk", "call", Query(state), "", state.selectedUserIds)}
    /\ issued' = issued + 1
    /\ UNCHANGED <<shown, clientVars, utilVars>>

\* the Delete button of a row, up to the await of deleteUser
handleDeleteUser(userId, confirmed) ==
    /\ Mounted
    /\ view(state) = "table"
    /\ userId \in Displayed(state)
    /\ issued < MaxTasks
    /\ IF ~confirmed
       THEN UNCHANGED vars
       ELSE /\ state' = [state EXCEPT !.loading = TRUE]
            /\ tasks' = tasks \cup {Task("delete", "call", Query(state), userId, <<>>)}
            /\ issued' = issued + 1
            /\ UNCHANGED <<shown, clientVars, utilVars>>

\* history: a list load has settled; when it succeeded it is the load shown,
\* and the load shown until then is the one before it
settle(task, o) ==
    shown' = IF loaded(o)
             THEN [id |-> task.id, query |-> task.query, users |-> o.data.users,
                   before |-> shown.id]
             ELSE shown

\* a component that ignores the answer to a load issued before the one shown
getUsersSettles_dropsStale(task, o) ==
    /\ task \in tasks
    /\ task.kind = "load"
    /\ state' = IF task.id < shown.id
                THEN [state EXCEPT !.loading = FALSE]
                ELSE loadUsers_end(state, o)
    /\ tasks' = tasks \ {task}
    /\ settle(task, o)
    /\ UNCHANGED <<issued, clientVars, utilVars>>

\* getUsers settles for a loadUsers called by the effect or by a button
getUsersSettles(task, o) ==
    /\ task \in tasks
    /\ task.kind = "load"
    /\ state' = loadUsers_end(state, o)
    /\ tasks' = tasks \ {task}
    /\ settle(task, o)
    /\ UNCHANGED <<issued, clientVars, utilVars>>

\* a handler that, on success, takes the deleted record out of the local
\* list instead of reloading it
mutationSettles_patchesLocally(task, o) ==
    /\ task \in tasks
    /\ task.kind \in {"delete", "bulk"}
    /\ task.phase = "call"
    /\ LET fallback == IF task.kind = "delete" THEN "Failed to delete user"
                       ELSE "Bulk update failed"
       IN  IF o.kind = "returned" /\ o.success
           THEN state' = [state EXCEPT !.users = filterOut(@, task.userId),
                                       !.selectedUserIds = filterOut(@, task.userId),
                                       !.loading = FALSE]
           ELSE state' = [state EXCEPT !.error = caught(o, fallback, fallback),
                                       !.loading = FALSE]
    /\ tasks' = tasks \ {task}
    /\ UNCHANGED <<issued, shown, clientVars, utilVars>>

\* deleteUser / bulkUpdateUsers settles: on success the handler calls
\* loadUsers and awaits it, otherwise it stores the error and ends
mutationSettles(task, o) ==
    /\ task \in tasks
    /\ task.kind \in {"delete", "bulk"}
    /\ task.phase = "call"
    /\ LET fallback == IF task.kind = "delete" THEN "Failed to delete user"
                       ELSE "Bulk update failed"
       IN  IF o.kind = "returned" /\ o.success
           THEN /\ state' = loadUsers_begin(state)
                /\ tasks' = (tasks \ {task}) \cup {[task EXCEPT !.phase = "reload"]}
           ELSE /\ state' = [state EXCEPT !.error = caught(o, fallback, fallback),
                                          !.loading = FALSE]
                /\ tasks' = tasks \ {task}
    /\ UNCHANGED <<issued, shown, clientVars, utilVars>>

\* getUsers settles for the loadUsers awaited by handleDeleteUser or
\* handleBulkUpdate: loadUsers ends, then the handler updates the selection
\* and its finally block clears loading
reloadSettles(task, o) ==
    /\ task \in tasks
    /\ task.phase = "reload"
    /\ LET st == loadUsers_end(state, o)
       IN  state' = [st EXCEPT
                !.selectedUserIds = IF task.kind = "delete"
                                    THEN filterOut(@, task.userId)
                                    ELSE <<>>,
                !.loading = FALSE]
    /\ tasks' = tasks \ {task}
    /\ settle(task, o)
    /\ UNCHANGED <<issued, clientVars, utilVars>>

SearchQueries == {"", "john"}
StatusFilters == {UNDEFINED, "active"}

NextTable ==
    \/ mount
    \/ clickSearch
    \/ \E q \in SearchQueries \ {state.searchQuery} : handleSearch(q)
    \/ \E f \in StatusFilters \ {state.filters.status} : handleFilterChange([status |-> f])
    \/ clickPrevious
    \/ clickNext
    \/ \E id \in {"u1", "u2"}, sel \in BOOLEAN : handleUserSelection(id, sel)
    \/ \E sel \in BOOLEAN : handleBulkSelection(sel)
    \/ clearSelection
    \/ handleBulkUpdate
    \/ \E id \in {"u1", "u2"}, c \in BOOLEAN : handleDeleteUser(id, c)
    \/ \E t \in tasks, o \in ListOutcomes : getUsersSettles(t, o)
    \/ \E t \in tasks, o \in MutationOutcomes : mutationSettles(t, o)
    \/ \E t \in tasks, o \in ListOutcomes : reloadSettles(t, o)

\* the options of the selects that are tried
SortFields == {"createdAt", "username"}
SortOrders == {"asc", "desc"}
PageSizes == {<<"1", "0">>}

\* a component rendered with either initialPagination
InitTable ==
    /\ pc = "idle"
    /\ ctorConfig = [retry |-> AbsentRetry]
    /\ clientConfig = constructor(ctorConfig)
    /\ svcCall = NoCall
    /\ fault = UNDEFINED
    /\ service = UserService(NoServiceConfig)
    /\ config = NoConfig
    /\ retryConfig = AbsentRetry
    /\ attempt = 0
    /\ lastError = UndefinedError
    /\ result = Pending
    /\ log = <<>>
    /\ lastFailure = UndefinedError
    /\ response = NoResponse
    /\ \E p \in InitialPaginations : state = initialState(p, NoFilters)
    /\ tasks = {}
    /\ issued = 0
    /\ shown = NoLoad
    /\ UtilInit

SpecTable == InitTable /\ [][NextTable]_vars

----------------------------------------------------------------------------
(* The view state of the UserTable: the search box, the filter, the sort   *)
(* and page size selects and the Previous / Next buttons, with the loads   *)
(* they start.  An input or a select calls its handler only with a value   *)
(* other than the one it shows.  The component is rendered with one of     *)
(* InitialPaginations or on the second page of ten.                        *)

ViewPaginations ==
    InitialPaginations \cup {[DefaultInitialPagination EXCEPT !.page = 2, !.limit = 10]}

InitView ==
    /\ pc = "idle"
    /\ ctorConfig = [retry |-> AbsentRetry]
    /\ clientConfig = constructor(ctorConfig)
    /\ svcCall = NoCall
    /\ fault = UNDEFINED
    /\ service = UserService(NoServiceConfig)
    /\ config = NoConfig
    /\ retryConfig = AbsentRetry
    /\ attempt = 0
    /\ lastError = UndefinedError
    /\ result = Pending
    /\ log = <<>>
    /\ lastFailure = UndefinedError
    /\ response = NoResponse
    /\ \E p \in ViewPaginations : state = initialState(p, NoFilters)
    /\ tasks = {}
    /\ issued = 0
    /\ shown = NoLoad
    /\ UtilInit

NextView ==
    \/ mount
    \/ clickSearch
    \/ \E q \in SearchQueries \ {state.searchQuery} : handleSearch(q)
    \/ \E f \in StatusFilters \ {state.filters.status} : handleFilterChange([status |-> f])
    \/ clickPrevious
    \/ clickNext
    \/ \E v \in SortFields \ {state.pagination.sortBy} : selectSortBy(v)
    \/ \E v \in SortOrders \ {state.pagination.sortOrder} : selectSortOrder(v)
    \/ \E v \in PageSizes : parseInt(v) # Num(state.pagination.limit) /\ selectPageSize(v)
    \/ \E t \in tasks, o \in ListOutcomes : getUsersSettles(t, o)

SpecView == InitView /\ [][NextView]_vars

----------------------------------------------------------------------------
(* debounce and throttle: the returned function, the timeout callback and  *)
(* the clock.                                                              *)

NumCalled == Cardinality({i \in 1..Len(trace) : trace[i].kind = "call"})

\* nothing but the utilities runs
QuietInit ==
    /\ pc = "idle"
    /\ ctorConfig = [retry |-> AbsentRetry]
    /\ clientConfig = constructor(ctorConfig)
    /\ svcCall = NoCall
    /\ fault = UNDEFINED
    /\ service = UserService(NoServiceConfig)
    /\ config = NoConfig
    /\ retryConfig = AbsentRetry
    /\ attempt = 0
    /\ lastError = UndefinedError
    /\ result = Pending
    /\ log = <<>>
    /\ lastFailure = UndefinedError
    /\ response = NoResponse
    /\ TableInit

\* time passes
tick ==
    /\ now < MaxTime
    /\ now' = now + 1
    /\ UNCHANGED <<wait, timer, inThrottle, trace, truncArgs, truncResult>>
    /\ UNCHANGED <<clientVars, tableVars>>

\* a debounced function that leaves a pending timeout alone
debounced_keepsPending(args) ==
    /\ trace' = Append(trace, Called(args, FALSE))
    /\ timer' = IF timer.armed THEN timer ELSE Timeout(now + wait, args)
    /\ UNCHANGED <<now, wait, inThrottle, truncArgs, truncResult>>
    /\ UNCHANGED <<clientVars, tableVars>>

\* the function returned by debounce(func, delay):
\* clearTimeout(timeoutId); timeoutId = setTimeout(() => func(...args), delay)
debounced(args) ==
    /\ trace' = Append(trace, Called(args, FALSE))
    /\ timer' = Timeout(now + wait, args)
    /\ UNCHANGED <<now, wait, inThrottle, truncArgs, truncResult>>
    /\ UNCHANGED <<clientVars, tableVars>>

\* the timeout of debounce fires: () => func(...args)
debounceTimeout ==
    /\ timer.armed
    /\ now >= timer.due
    /\ trace' = Append(trace, Invoked(timer.args))
    /\ timer' = NoTimer
    /\ UNCHANGED <<now, wait, inThrottle, truncArgs, truncResult>>
    /\ UNCHANGED <<clientVars, tableVars>>

InitDebounce ==
    /\ QuietInit
    /\ now = 0
    /\ wait \in 0..MaxWait
    /\ timer = NoTimer
    /\ inThrottle = FALSE
    /\ trace = <<>>
    /\ truncArgs = NoTruncArgs
    /\ truncResult = NoTruncResult

\* calls are made while their timeout falls within the clock
NextDebounce ==
    \/ /\ NumCalled < MaxEvents
       /\ now + wait <= MaxTime
       /\ \E a \in FuncArgs : debounced(a)
    \/ debounceTimeout
    \/ tick

\* the clock advances and a timeout that is not cleared fires
SpecDebounce ==
    InitDebounce /\ [][NextDebounce]_vars /\ WF_vars(tick) /\ WF_vars(debounceTimeout)

\* a throttled function that never sets the flag
throttled_noFlag(args) ==
    /\ trace' = trace \o <<Called(args, inThrottle), Invoked(args)>>
    /\ UNCHANGED <<inThrottle, timer>>
    /\ UNCHANGED <<now, wait, truncArgs, truncResult>>
    /\ UNCHANGED <<clientVars, tableVars>>

\* the function returned by throttle(func, limit); `let inThrottle: boolean`
\* starts undefined, which !inThrottle reads as false
throttled(args) ==
    /\ IF ~inThrottle
       THEN /\ trace' = trace \o <<Called(args, inThrottle), Invoked(args)>>
            /\ inThrottle' = TRUE
            /\ timer' = Timeout(now + wait, args)
       ELSE /\ trace' = Append(trace, Called(args, inThrottle))
            /\ UNCHANGED <<inThrottle, timer>>
    /\ UNCHANGED <<now, wait, truncArgs, truncResult>>
    /\ UNCHANGED <<clientVars, tableVars>>

\* the timeout of throttle fires: () => inThrottle = false
throttleTimeout ==
    /\ timer.armed
    /\ now >= timer.due
    /\ inThrottle' = FALSE
    /\ timer' = NoTimer
    /\ UNCHANGED <<now, wait, trace, truncArgs, truncResult>>
    /\ UNCHANGED <<clientVars, tableVars>>

InitThrottle == InitDebounce

NextThrottle ==
    \/ /\ NumCalled < MaxEvents
       /\ \E a \in FuncArgs : throttled(a)
    \/ throttleTimeout
    \/ tick

SpecThrottle == InitThrottle /\ [][NextThrottle]_vars

----------------------------------------------------------------------------
(* truncateString with preserveHtml off *)

Min(a, b) == IF a < b THEN a ELSE b
Max(a, b) == IF a > b THEN a ELSE b

\* str.substring(start, end): both clamped to 0..length, swapped if start > end
substring(str, start, end) ==
    LET a == Min(Max(start, 0), Len(str))
        b == Min(Max(end, 0), Len(str))
    IN  SubSeq(str, Min(a, b) + 1, Max(a, b))

\* str.lastIndexOf(c), counted from 0; -1 when c does not occur
lastIndexOf(str, c) ==
    LET at == {i \in 1..Len(str) : str[i] = c}
    IN  IF at = {} THEN -1 ELSE (CHOOSE i \in at : \A j \in at : j <= i) - 1

truncateString(str, maxLength, ellipsis, truncateAtWord) ==
    IF str = <<>> \/ Len(str) <= maxLength THEN str
    ELSE LET cut == substring(str, 0, maxLength - Len(ellipsis))
             lastSpaceIndex == lastIndexOf(cut, " ")
             truncated == IF truncateAtWord /\ lastSpaceIndex > 0
                          THEN substring(cut, 0, lastSpaceIndex)
                          ELSE cut
         IN  truncated \o ellipsis

callTruncateString ==
    /\ ~truncResult.returned
    /\ truncResult' = [returned |-> TRUE,
                       value |-> truncateString(truncArgs.str, truncArgs.maxLength,
                                                truncArgs.ellipsis, truncArgs.truncateAtWord)]
    /\ UNCHANGED <<now, wait, timer, inThrottle, trace, truncArgs>>
    /\ UNCHANGED <<clientVars, tableVars>>

InitTruncate ==
    /\ QuietInit
    /\ now = 0
    /\ wait = 0
    /\ timer = NoTimer
    /\ inThrottle = FALSE
    /\ trace = <<>>
    /\ truncArgs \in TruncInputs
    /\ truncResult = NoTruncResult

NextTruncate == callTruncateString

SpecTruncate == InitTruncate /\ [][NextTruncate]_vars

----------------------------------------------------------------------------
(* Vocabulary of the properties *)

IsCall(e) == e.kind = "call"
IsWait(e) == e.kind = "wait"

NumCalls == Len(SelectSeq(log, IsCall))
NumWaits == Len(SelectSeq(log, IsWait))

\* the number of transport invocations among the first i entries of the log
CallIndex(i) == Cardinality({j \in 1..i : log[j].kind = "call"})

Finished == pc = "done"
Failed == result.kind = "resolved" /\ ~result.env.success
Succeeded == result.kind = "resolved" /\ result.env.success

\* What a failure should be reported as, read off the failure itself.
ExpectedStatus(f) == IF f.response.present THEN f.response.status ELSE 0

ExpectedError(f) ==
    IF f.response.present
    THEN IF f.response.message \in {UNDEFINED, ""} THEN "Server error occurred"
         ELSE f.response.message
    ELSE IF f.request THEN "No response received from server"
    ELSE IF f.message \in {UNDEFINED, ""} THEN "An unexpected error occurred"
    ELSE f.message

\* n transport calls of class c separated by waits of d
Alternating(n, c, d) ==
    [i \in 1..(2 * n - 1) |-> IF i % 2 = 1 THEN Call(c) ELSE Wait(d)]

----------------------------------------------------------------------------
(* C1: with attempts = N >= 1 the number of transport invocations is       *)
(* never more than N and is at least 1 once the call has finished, and a   *)
(* failure envelope carries the message and status of the failure of the   *)
(* last attempt made.                                                      *)
C1_BoundedAttemptsLastFailureSurfaced ==
    (pc # "idle" /\ retryConfig.attempts >= 1) =>
        /\ NumCalls <= retryConfig.attempts
        /\ Finished => NumCalls >= 1
        /\ (Finished /\ Failed) =>
              /\ log[Len(log)] = Call(FailureClass(lastFailure))
              /\ result.env.statusCode = ExpectedStatus(lastFailure)
              /\ result.env.error = ExpectedError(lastFailure)

\* three attempts, the first a 5xx response, the last a lost connection
C1_Witness ==
    /\ Finished /\ Failed
    /\ retryConfig.attempts = 3
    /\ NumCalls = 3
    /\ log[1] = Call("server")
    /\ FailureClass(lastFailure) = "noResponse"
    /\ result.env.statusCode = 0

(* C2: when every attempt fails with a 5xx response, the finished call has *)
(* made exactly N attempts and N-1 waits of D, one between each pair of    *)
(* consecutive attempts and none after the last.                           *)
C2_ServerErrorsAttemptedExactlyN ==
    (/\ Finished
     /\ retryConfig.attempts >= 1
     /\ \A i \in 1..Len(log) : IsCall(log[i]) => log[i].class = "server")
    => log = Alternating(retryConfig.attempts, "server", retryConfig.delay)

C2_Witness ==
    /\ Finished
    /\ retryConfig.attempts = 3
    /\ retryConfig.delay = 1000
    /\ log = <<Call("server"), Wait(1000), Call("server"), Wait(1000), Call("server")>>

(* C3: when the first attempt fails with a 4xx response that is not a      *)
(* timeout, the call finishes at once: one transport invocation, no wait,  *)
(* and a failure envelope carrying that status.                            *)
C3_ClientErrorNotRetried ==
    (pc # "idle" /\ log # <<>> /\ log[1].class = "client") =>
        /\ Finished
        /\ log = <<Call("client")>>
        /\ Failed
        /\ result.env.statusCode = lastFailure.response.status
        /\ result.env.statusCode \in 400..499

C3_Witness ==
    /\ Finished /\ Failed
    /\ retryConfig.attempts = 3
    /\ log = <<Call("client")>>
    /\ result.env.statusCode = 400

C5_EnvelopeExclusive ==
    result.kind = "resolved" =>
        /\ result.env.success => result.env.error = UNDEFINED
        /\ ~result.env.success =>
              (result.env.error # UNDEFINED /\ result.env.data = UNDEFINED)
        /\ ~(result.env.data # UNDEFINED /\ result.env.error # UNDEFINED)

\* a failure whose response body carries an empty message
C5_Witness ==
    /\ Finished /\ Failed
    /\ lastFailure.response.present
    /\ lastFailure.response.message = ""
    /\ result.env.error # UNDEFINED
    /\ result.env.data = UNDEFINED

(* C6: a successful attempt ends the call: the success is the last entry   *)
(* of the log, it is the k-th call after k-1 waits with k <= N, and the    *)
(* envelope is the success envelope of that response.                      *)
C6_SuccessStopsTheLoop ==
    \A i \in 1..Len(log) :
        log[i].class = "ok" =>
            /\ i = Len(log)
            /\ pc \in {"done", "idle"}
            /\ NumCalls = attempt
            /\ NumCalls <= retryConfig.attempts
            /\ NumWaits = NumCalls - 1
            /\ Succeeded
            /\ result.env.statusCode = response.status
            /\ result.env.data = response.data
            /\ result.env.error = UNDEFINED

C6_Witness ==
    /\ Finished /\ Succeeded
    /\ retryConfig.attempts = 3
    /\ log = <<Call("server"), Wait(1000), Call("ok")>>
    /\ result.env.data = "payload"

(* C7: a timeout that carries a 4xx status is retried: unless it was the   *)
(* last attempt it is followed by a wait of D and then another attempt;    *)
(* the number of attempts never exceeds N.                                 *)
C7_TimeoutRetried ==
    /\ pc # "idle" => NumCalls <= retryConfig.attempts \/ retryConfig.attempts < 1
    /\ \A i \in 1..Len(log) :
          log[i].class = "timeout4xx" =>
              IF CallIndex(i) < retryConfig.attempts
              THEN /\ i = Len(log) => pc = "delay"
                   /\ i < Len(log) => log[i + 1] = Wait(retryConfig.delay)
                   /\ i + 1 = Len(log) => pc = "transport"
                   /\ i + 1 < Len(log) => IsCall(log[i + 2])
              ELSE i = Len(log) /\ pc \in {"done", "idle"}

C7_Witness ==
    /\ Finished
    /\ Len(log) = 3
    /\ log[1] = Call("timeout4xx")
    /\ log[2] = Wait(1000)
    /\ IsCall(log[3])

(* C8 as stated: a failure carrying neither a response nor a request ends  *)
(* the call at once, with one transport invocation and no wait.            *)
C8_LocalFailureNotRetried ==
    (pc # "idle" /\ log # <<>> /\ log[1].class = "local") =>
        /\ Finished
        /\ log = <<Call("local")>>

(* C8 amended: a failure carrying neither a response nor a request is      *)
(* retried like any failure that is not a 4xx response: unless it was the  *)
(* last attempt it is followed by a wait of D and another attempt; when it *)
(* was the last attempt the call ends in a failure envelope with status 0. *)
C8_LocalFailureRetried ==
    \A i \in 1..Len(log) :
        log[i].class = "local" =>
            IF CallIndex(i) < retryConfig.attempts
            THEN /\ i = Len(log) => pc = "delay"
                 /\ i < Len(log) => log[i + 1] = Wait(retryConfig.delay)
                 /\ i + 1 = Len(log) => pc = "transport"
                 /\ i + 1 < Len(log) => IsCall(log[i + 2])
            ELSE /\ i = Len(log)
                 /\ pc \in {"done", "idle"}
                 /\ Failed
                 /\ result.env.statusCode = 0

C8_Witness ==
    /\ Finished /\ Failed
    /\ retryConfig.attempts = 2
    /\ log = <<Call("local"), Wait(1000), Call("local")>>
    /\ result.env.statusCode = 0

(* C9 as stated: with a response, the error is the body's message field    *)
(* whenever the body has one, and 'Server error occurred' when it has none.*)
C9_MessageFieldAlwaysSurfaced ==
    (Finished /\ Failed /\ lastFailure.response.present) =>
        /\ result.env.statusCode = lastFailure.response.status
        /\ result.env.error =
              IF lastFailure.response.message = UNDEFINED THEN "Server error occurred"
              ELSE lastFailure.response.message

(* C9 amended: three exclusive cases.  (1) With a response: the status is  *)
(* the response's and the error is the body's message when that is         *)
(* non-empty, 'Server error occurred' when it is missing or empty.         *)
(* (2) Without a response but with a request: status 0 and 'No response    *)
(* received from server'.  (3) Otherwise: status 0 and the failure's own   *)
(* message, or 'An unexpected error occurred' when that is missing or      *)
(* empty.  A failure with a response is never reported with status 0.      *)
C9_FailureClassified ==
    (Finished /\ Failed) =>
        LET f == lastFailure
            e == result.env
        IN  /\ f.response.present =>
                  /\ e.statusCode = f.response.status
                  /\ e.statusCode # 0
                  /\ e.error = IF f.response.message \in {UNDEFINED, ""}
                               THEN "Server error occurred"
                               ELSE f.response.message
            /\ (~f.response.present /\ f.request) =>
                  /\ e.statusCode = 0
                  /\ e.error = "No response received from server"
            /\ (~f.response.present /\ ~f.request) =>
                  /\ e.statusCode = 0
                  /\ e.error = IF f.message \in {UNDEFINED, ""}
                               THEN "An unexpected error occurred"
                               ELSE f.message

C9_Witness ==
    /\ Finished /\ Failed
    /\ lastFailure.response.present
    /\ lastFailure.response.message = ""
    /\ lastFailure.response.status = 500
    /\ result.env.error = "Server error occurred"
    /\ result.env.statusCode = 500

----------------------------------------------------------------------------
(* Vocabulary of the header properties *)

AllDigits(s) == s # <<>> /\ \A i \in 1..Len(s) : s[i] \in Digits

\* an optional sign followed by one or more digits, and nothing else
WellFormedInt(s) ==
    \/ AllDigits(s)
    \/ (s # <<>> /\ Head(s) \in {"-", "+"} /\ AllDigits(Tail(s)))

IntOf(s) ==
    IF Head(s) = "-" THEN 0 - DecimalValue(Tail(s), 0)
    ELSE IF Head(s) = "+" THEN DecimalValue(Tail(s), 0)
    ELSE DecimalValue(s, 0)

\* no integer can be read at the start of s, leading blanks apart
Unparsable(s) ==
    LET t == TrimStart(s)
    IN  ~\E k \in 1..Len(t) : WellFormedInt(SubSeq(t, 1, k))

MetaOf(e, n) ==
    CASE n = "x-total-count" -> e.meta.total
      [] n = "x-page" -> e.meta.page
      [] n = "x-limit" -> e.meta.limit

(* C10: in a success envelope, for each of x-total-count, x-page, x-limit: *)
(* a present, well-formed integer header gives a meta field equal to that  *)
(* integer; an absent or unparsable header gives an absent meta field,     *)
(* never zero and never NaN.                                               *)
C10_MetaFromHeaders ==
    (Finished /\ Succeeded) =>
        \A n \in HeaderNames :
            LET h == response.headers[n]
                m == MetaOf(result.env, n)
            IN  /\ (h.present /\ WellFormedInt(h.value)) => m = Num(IntOf(h.value))
                /\ (~h.present \/ Unparsable(h.value)) => m = UndefinedNum

----------------------------------------------------------------------------
(* Vocabulary of the request and service properties *)

InProgress == pc # "idle"
Op == svcCall.op
NoTransport == pc = "idle" /\ log = <<>>

\* the default policy of a client constructed without one
BuiltInRetry == Retry([attempts |-> 3, delay |-> 1000])

\* local@domain.tld: exactly one "@", no white space, something before the
\* "@", and after it a "." with something on both sides
LooksLikeEmail(e) ==
    /\ Cardinality({k \in 1..Len(e) : e[k] = "@"}) = 1
    /\ \A k \in 1..Len(e) : e[k] # " "
    /\ LET at == CHOOSE k \in 1..Len(e) : e[k] = "@"
       IN  /\ at > 1
           /\ \E d \in (at + 2)..(Len(e) - 1) : e[d] = "."

MissingOrEmpty(u) ==
    \/ u.username \in {UNDEFINED, ""}
    \/ u.fullName \in {UNDEFINED, ""}
    \/ ~u.email.present \/ Len(u.email.chars) = 0
    \/ ~u.password.present \/ Len(u.password.chars) = 0

(* C11: the config of a request never has both params and data: with GET   *)
(* the caller's data is the params and there is no body; with any other    *)
(* method the caller's data is the body and there are no params.           *)
C11_ParamsOrBodyNeverBoth ==
    InProgress =>
        /\ ~(config.params # NoData /\ config.data # NoData)
        /\ config.method = "GET" => config.data = NoData
        /\ config.method # "GET" => config.params = NoData
        /\ Op = "request" =>
              /\ config.method = svcCall.method
              /\ svcCall.method = "GET" => config.params = svcCall.data
              /\ svcCall.method # "GET" => config.data = svcCall.data

C11_Witness ==
    /\ pc = "transport"
    /\ Op = "request"
    /\ svcCall.method = "DELETE"
    /\ svcCall.data = RawData
    /\ config.data = RawData
    /\ config.params = NoData

C13_CreateUserValidation ==
    Op = "createUser" =>
        LET u == svcCall.userData
        IN  IF \/ MissingOrEmpty(u)
               \/ ~LooksLikeEmail(u.email.chars)
               \/ Len(u.password.chars) < 8
            THEN fault # UNDEFINED /\ NoTransport
            ELSE /\ fault = UNDEFINED
                 /\ InProgress
                 /\ config.method = "POST"
                 /\ config.url = <<service.baseEndpoint>>
                 /\ config.data = u

\* a password of length 5 with every other field good
C13_Witness ==
    /\ Op = "createUser"
    /\ svcCall.userData.email = GoodEmail
    /\ Len(svcCall.userData.password.chars) = 5
    /\ fault = "Password must be at least 8 characters long"
    /\ NoTransport

(* C14: bulkUpdateUsers with no identifier throws and makes no transport   *)
(* call; with at least one it makes one request, a POST to the             *)
(* /bulk-update sub-path.                                                  *)
C14_BulkUpdateNeedsIds ==
    Op = "bulkUpdateUsers" =>
        IF Len(svcCall.userIds) = 0
        THEN fault # UNDEFINED /\ NoTransport
        ELSE /\ fault = UNDEFINED
             /\ InProgress
             /\ config.method = "POST"
             /\ config.url = <<service.baseEndpoint, "/bulk-update">>

C14_Witness ==
    /\ Op = "bulkUpdateUsers"
    /\ svcCall.userIds = <<>>
    /\ fault = "At least one user ID must be provided"
    /\ NoTransport

(* C15: deleteUser makes a DELETE on base + "/" + id whose headers hold    *)
(* X-Force-Delete: true exactly when force is true; without force the      *)
(* request has no headers of its own.                                      *)
C15_ForceDeleteHeader ==
    Op = "deleteUser" =>
        /\ fault = UNDEFINED
        /\ InProgress
        /\ config.method = "DELETE"
        /\ config.url = <<service.baseEndpoint, "/", svcCall.userId>>
        /\ svcCall.force <=> (<<"X-Force-Delete", "true">> \in config.headers.entries)
        /\ ~svcCall.force => ~config.headers.present

C15_Witness ==
    /\ pc = "transport"
    /\ Op = "deleteUser"
    /\ svcCall.force
    /\ config.headers = Headers({<<"X-Force-Delete", "true">>})
    /\ config.url = <<"/api/v1/users", "/", "u2">>

(* C16: the params of getUsers / searchUsers hold page, limit, sortBy and  *)
(* sortOrder, the caller's where given and the service default otherwise;  *)
(* the filters are passed through; no date-range filter is sent as a raw   *)
(* date.                                                                   *)
C16_ListParams ==
    (Op \in {"getUsers", "searchUsers"}) =>
        LET o == svcCall.options
            d == service.defaultPagination
            q == config.params
        IN  /\ InProgress
            /\ config.method = "GET"
            /\ q.page = IF o.page # UndefinedNum THEN o.page ELSE d.page
            /\ q.limit = IF o.limit # UndefinedNum THEN o.limit ELSE d.limit
            /\ q.sortBy = IF o.sortBy # UNDEFINED THEN o.sortBy ELSE d.sortBy
            /\ q.sortOrder = IF o.sortOrder # UNDEFINED THEN o.sortOrder ELSE d.sortOrder
            /\ q.status = o.status
            /\ q.search = IF Op = "searchUsers" THEN svcCall.searchTerm ELSE o.search
            /\ q.createdAfter.t # "date"
            /\ q.createdBefore.t # "date"
            /\ q.dateRange.t = "range" =>
                  (q.dateRange.start.t # "date" /\ q.dateRange.end.t # "date")

(* C17 as stated: the body posted to /bulk-update has exactly the fields   *)
(* ids and updateData.                                                     *)
C17_BulkBodyIds ==
    (Op = "bulkUpdateUsers" /\ InProgress) =>
        DOMAIN config.data = {"ids", "updateData"}

(* C17 amended: the body posted to /bulk-update has exactly the fields     *)
(* userIds, the target identifiers, and updateData, the update payload.    *)
C17_BulkBodyUserIds ==
    (Op = "bulkUpdateUsers" /\ InProgress) =>
        /\ DOMAIN config.data = {"userIds", "updateData"}
        /\ config.data.userIds = svcCall.userIds
        /\ config.data.updateData = svcCall.updateData

C17_Witness ==
    /\ pc = "transport"
    /\ Op = "bulkUpdateUsers"
    /\ svcCall.userIds = <<"u2", "u1">>
    /\ config.data = [userIds |-> <<"u2", "u1">>, updateData |-> [isActive |-> FALSE]]

----------------------------------------------------------------------------
(* Vocabulary of the UserTable properties *)

IsLoad(t) == t.kind = "load" \/ t.phase = "reload"

\* this step is the end of a loadUsers call: its getUsers has settled
LoadSettles == \E t \in tasks : IsLoad(t) /\ t \notin tasks'
Settling == CHOOSE t \in tasks : IsLoad(t) /\ t \notin tasks'
LoadSucceeds == LoadSettles /\ shown' # shown
LoadFails == LoadSettles /\ shown' = shown

Selected(st) == {st.selectedUserIds[k] : k \in 1..Len(st.selectedUserIds)}

(* C18: when a list load fails, the error message is stored, loading is     *)
(* false and the user records are unchanged; at any time the records       *)
(* displayed are those the last successful load returned, none when no     *)
(* load has succeeded.                                                     *)
C18_FailedLoadKeepsRecords ==
    /\ [](state.users = shown.users)
    /\ [](shown.id = 0 => state.users = <<>>)
    /\ [][LoadFails =>
            /\ state'.users = state.users
            /\ state'.error # NULL
            /\ Truthy(state'.error)
            /\ state'.loading = FALSE]_vars

\* a reload has failed and the records of the first load are still shown
C18_Witness ==
    /\ tasks = {}
    /\ issued = 2
    /\ shown.id = 1
    /\ state.users = <<"u1", "u2">>
    /\ state.error = "Server error"
    /\ ~state.loading

(* C19: when a reload of the list succeeds, every id of the selection is   *)
(* the id of a record of the reloaded list.                                *)
C19_SelectionWithinReloadedList ==
    [][LoadSucceeds => Selected(state') \subseteq Displayed(state')]_vars

(* C20: a load that succeeds sets the records displayed, whether or not it *)
(* was issued before the load shown until then, so of two overlapping      *)
(* loads the one that resolves last is displayed; starting a load and      *)
(* settling one leave every other call in flight.                          *)
C20_LastResolvedWins ==
    [][/\ LoadSucceeds =>
            /\ shown'.id = Settling.id
            /\ state'.users = shown'.users
       /\ issued' # issued => tasks \subseteq tasks'
       /\ \A t \in tasks \ tasks' :
            /\ t.phase = "call" /\ t.kind # "load" => [t EXCEPT !.phase = "reload"] \in tasks'
                                                      \/ tasks' = tasks \ {t}
            /\ tasks \ {t} \subseteq tasks']_vars

\* the load issued first has resolved last: its records are displayed,
\* while the query of the component is that of the load issued after it
C20_Witness ==
    /\ tasks = {}
    /\ shown.id > 0
    /\ shown.before > shown.id
    /\ shown.query # Query(state)
    /\ state.users = shown.users
    /\ state.users # <<>>

----------------------------------------------------------------------------
(* Termination and the unguarded attempt count *)

(* C28: a call whose policy has attempts = N >= 1 terminates: it makes at  *)
(* most N transport invocations and at most N - 1 delays, and, every       *)
(* transport invocation and delay completing, it returns an envelope.      *)
C28_RequestTerminates ==
    /\ []((InProgress /\ retryConfig.attempts >= 1) =>
            /\ NumCalls <= retryConfig.attempts
            /\ NumWaits <= retryConfig.attempts - 1
            /\ attempt <= retryConfig.attempts)
    /\ (InProgress /\ retryConfig.attempts >= 1) ~> (Finished /\ result.kind = "resolved")

\* a call that used every attempt and every delay of its policy
C28_Witness ==
    /\ Finished
    /\ result.kind = "resolved"
    /\ retryConfig.attempts = MaxAttempts
    /\ NumCalls = retryConfig.attempts
    /\ NumWaits = retryConfig.attempts - 1

(* C30: with attempts <= 0 the call makes no transport invocation and      *)
(* resolves to a failure envelope with statusCode 0; it does not reject.   *)
C30_NoAttemptsFailureEnvelope ==
    (InProgress /\ retryConfig.attempts <= 0) =>
        /\ Finished
        /\ NumCalls = 0
        /\ result.kind = "resolved"
        /\ ~result.env.success
        /\ result.env.statusCode = 0

----------------------------------------------------------------------------
(* The view state of the UserTable *)

Page(st) == st.pagination.page

\* the fields of the pagination that this step changes
ChangedFields ==
    {f \in {"page", "limit", "sortBy", "sortOrder"} : state'.pagination[f] # state.pagination[f]}

SearchOrFilterChanges ==
    state'.searchQuery # state.searchQuery \/ state'.filters # state.filters

(* C21: a change of the search query or of a filter sets the page to 1 and *)
(* leaves limit, sortBy and sortOrder as they are; any other change of the *)
(* pagination changes only what its control names: Previous and Next move  *)
(* the page by one, a sort select changes its field and keeps the page,    *)
(* the page size select sets the limit and the page 1 it names.            *)
C21_PageResetOnSearchAndFilter ==
    [][/\ SearchOrFilterChanges =>
            /\ Page(state') = 1
            /\ ChangedFields \subseteq {"page"}
       /\ (~SearchOrFilterChanges /\ ChangedFields # {}) =>
            \/ /\ ChangedFields = {"page"}
               /\ Page(state') \in {Page(state) - 1, Page(state) + 1}
            \/ ChangedFields = {"sortBy"}
            \/ ChangedFields = {"sortOrder"}
            \/ /\ "limit" \in ChangedFields
               /\ ChangedFields \subseteq {"limit", "page"}
               /\ Page(state') = 1]_vars

\* typed into the search box on the second page of ten: the load that
\* follows asks for the first page of ten
C21_Witness ==
    /\ shown.id = 1
    /\ shown.query.pagination.page = 2
    /\ shown.query.pagination.limit = 10
    /\ Page(state) = 1
    /\ state.searchQuery = "john"
    /\ \E t \in tasks :
          /\ t.id = 2
          /\ getUsersOptions(t.query).search = "john"
          /\ getUsersOptions(t.query).page = 1
          /\ getUsersOptions(t.query).limit = 10

(* C23: the mount and every change of pagination, filters or search query  *)
(* start a list load in the same step: loading is true, the error is       *)
(* cleared, and the options of its getUsers call are those of the state    *)
(* after the change.                                                       *)
C23_LoadFollowsChange ==
    [][(Query(state') # Query(state) \/ (issued = 0 /\ issued' # 0)) =>
          /\ state'.loading
          /\ state'.error = NULL
          /\ \E t \in tasks' \ tasks :
                /\ t.kind = "load"
                /\ t.id = issued'
                /\ getUsersOptions(t.query) = getUsersOptions(Query(state'))]_vars

\* the filter was changed after two loads: the third load carries it
C23_Witness ==
    /\ issued = 3
    /\ shown.query.filters.status = UNDEFINED
    /\ state.filters.status = "active"
    /\ state.loading
    /\ state.error = NULL
    /\ \E t \in tasks : t.id = 3 /\ getUsersOptions(t.query).status = "active"

CanPage == Mounted /\ view(state) = "table" /\ issued < MaxTasks

(* C24: with the table on screen, Next can be clicked exactly when the     *)
(* list displayed has at least limit records and Previous exactly when the *)
(* page is above 1; after a load for page 2 with limit 10 that returned    *)
(* fewer than 10 records Next cannot be clicked.                           *)
C24_PagingControlsDisabled ==
    /\ (CanPage /\ Page(state) < MaxPage) =>
          (ENABLED clickNext <=> Len(state.users) >= state.pagination.limit)
    /\ CanPage => (ENABLED clickPrevious <=> Page(state) > 1)
    /\ (shown.query.pagination.page = 2 /\ shown.query.pagination.limit = 10
            /\ Query(state) = shown.query /\ Len(shown.users) < 10) =>
          ~ENABLED clickNext

\* the second page of ten came back with two records
C24_Witness ==
    /\ tasks = {}
    /\ shown.id = 1
    /\ shown.query.pagination.page = 2
    /\ shown.query.pagination.limit = 10
    /\ Query(state) = shown.query
    /\ state.users = <<"u1", "u2">>
    /\ view(state) = "table"
    /\ nextDisabled(state)
    /\ ~previousDisabled(state)

----------------------------------------------------------------------------
(* Mutations and the loading flag of the UserTable *)

IsMutationCall(t) == t.kind \in {"delete", "bulk"} /\ t.phase = "call"

(* C22: when the deleteUser or bulkUpdateUsers call of a handler settles,  *)
(* the handler either starts a list load and awaits it (the call           *)
(* succeeded) or stores an error and ends (it failed), and in both cases   *)
(* leaves the records displayed as they are; a handler that has started    *)
(* its reload ends only when that load settles; the records displayed      *)
(* change only when a list load succeeds, to the records it returned.      *)
C22_ReloadAfterMutation ==
    [][/\ \A t \in tasks \ tasks' :
            /\ IsMutationCall(t) =>
                  /\ state'.users = state.users
                  /\ \/ /\ tasks' = (tasks \ {t}) \cup {[t EXCEPT !.phase = "reload"]}
                        /\ state'.loading
                        /\ state'.error = NULL
                     \/ /\ tasks' = tasks \ {t}
                        /\ state'.error # NULL
                        /\ ~state'.loading
            /\ t.phase = "reload" => LoadSettles
       /\ state'.users # state.users =>
            /\ LoadSucceeds
            /\ state'.users = shown'.users]_vars

\* the delete has succeeded and its reload is in flight: the deleted
\* record is still in the list displayed
C22_Witness ==
    \E t \in tasks :
        /\ t.kind = "delete"
        /\ t.phase = "reload"
        /\ includes(state.users, t.userId)
        /\ state.loading
        /\ state.error = NULL

(* C29: loading is true exactly when a list load or a mutation started by  *)
(* the component is in flight.                                             *)
C29_LoadingIffInFlight ==
    state.loading <=> tasks # {}

----------------------------------------------------------------------------
(* The timing utilities *)

Last(seq) == seq[Len(seq)]

Invocations == {i \in 1..Len(trace) : trace[i].kind = "invoke"}
Calls == {i \in 1..Len(trace) : trace[i].kind = "call"}

\* the invocation at position i runs the call right before it, no sooner
\* than the delay after it
InvokesPrecedingCall(i) ==
    /\ i > 1
    /\ trace[i - 1].kind = "call"
    /\ trace[i].args = trace[i - 1].args
    /\ trace[i].at >= trace[i - 1].at + wait

\* a pending timeout belongs to the most recent call; with none pending the
\* most recent call has been invoked
PendingIsMostRecentCall ==
    /\ timer.armed =>
          /\ trace # <<>>
          /\ Last(trace).kind = "call"
          /\ timer.args = Last(trace).args
          /\ timer.due = Last(trace).at + wait
    /\ (~timer.armed /\ trace # <<>>) => Last(trace).kind = "invoke"

\* no invocation separates two calls made less than the delay apart
BurstIsUnbroken ==
    \A i \in Calls : \A j \in Calls :
        (i < j /\ (\A k \in Calls : ~(i < k /\ k < j)) /\ trace[j].at - trace[i].at < wait)
            => j = i + 1

\* C25: debounce(func, delay) invokes func only once the delay has passed
\* since the most recent call with no call in between, and with that call's
\* arguments; a call made earlier cancels the pending invocation, so a burst
\* of calls each less than the delay apart is followed by exactly one
\* invocation, that of its last call.
C25_DebounceInvokesLastCall ==
    /\ [](\A i \in Invocations : InvokesPrecedingCall(i))
    /\ []PendingIsMostRecentCall
    /\ []BurstIsUnbroken
    /\ ((trace # <<>> /\ Last(trace).kind = "call")
           ~> (trace # <<>> /\ Last(trace).kind = "invoke"))

\* a burst of two calls with different arguments, then the one invocation
C25_Witness ==
    \E i \in Calls :
        /\ i + 2 <= Len(trace)
        /\ trace[i + 1].kind = "call"
        /\ trace[i + 1].at - trace[i].at < wait
        /\ trace[i + 1].args # trace[i].args
        /\ trace[i + 2].kind = "invoke"
        /\ trace[i + 2].args = trace[i + 1].args

\* the time of the last invocation before position i, -1 when there is none
LastInvokedBefore(i) ==
    LET earlier == {k \in Invocations : k < i}
    IN  IF earlier = {} THEN -1
        ELSE trace[CHOOSE k \in earlier : \A m \in earlier : m <= k].at

\* the call at position i was passed on to func at once, with its arguments
InvokedAtOnce(i) ==
    /\ i < Len(trace)
    /\ trace[i + 1].kind = "invoke"
    /\ trace[i + 1].args = trace[i].args
    /\ trace[i + 1].at = trace[i].at

\* two invocations are at least the limit apart, and every invocation is
\* that of the call right before it
ThrottleSpacing ==
    /\ \A i \in Invocations : \A j \in Invocations :
           i < j => trace[j].at - trace[i].at >= wait
    /\ \A i \in Invocations : i > 1 /\ InvokedAtOnce(i - 1)

\* C26 as stated: throttle(func, limit) invokes func at most once per period
\* of length limit; a call is invoked at once when no invocation happened
\* within the preceding limit, and a call inside the window is dropped.
C26_ThrottleByElapsedTime ==
    /\ ThrottleSpacing
    /\ \A i \in Calls :
          LET last == LastInvokedBefore(i)
          IN  /\ (last = -1 \/ trace[i].at - last >= wait) => InvokedAtOnce(i)
              /\ (last # -1 /\ trace[i].at - last < wait) => ~InvokedAtOnce(i)

\* C26 amended: throttle(func, limit) invokes func at most once per period
\* of length limit; a call is invoked at once, with its own arguments, when
\* there was no invocation before or the reset timeout of the previous
\* invocation has fired, which happens no sooner than limit after it; every
\* other call, one made after the limit but before the timeout fired
\* included, is dropped and never invoked later.
C26_ThrottleByResetTimeout ==
    /\ ThrottleSpacing
    /\ \A i \in Calls : InvokedAtOnce(i) <=> ~trace[i].blocked
    /\ \A i \in Calls : (LastInvokedBefore(i) = -1) => ~trace[i].blocked
    /\ inThrottle <=> timer.armed
    /\ inThrottle => timer.due = LastInvokedBefore(Len(trace) + 1) + wait
    /\ (~inThrottle /\ Invocations # {}) => now >= LastInvokedBefore(Len(trace) + 1) + wait

\* a call dropped after the limit has passed, and a later call invoked
C26_Witness ==
    \E i \in Calls : \E j \in Calls :
        /\ wait > 0
        /\ i < j
        /\ LastInvokedBefore(i) # -1
        /\ trace[i].at - LastInvokedBefore(i) > wait
        /\ ~InvokedAtOnce(i)
        /\ InvokedAtOnce(j)
        /\ LastInvokedBefore(j) # -1

\* C27: with preserveHtml off the result of truncateString is never longer
\* than maxLength; a string no longer than maxLength comes back unchanged,
\* any other result ends with the ellipsis and what precedes it is a prefix
\* of the string.
C27_TruncateWithinMaxLength ==
    truncResult.returned =>
        LET str == truncArgs.str
            out == truncResult.value
            kept == Len(out) - Len(truncArgs.ellipsis)
        IN  /\ Len(out) <= truncArgs.maxLength
            /\ Len(str) <= truncArgs.maxLength => out = str
            /\ Len(str) > truncArgs.maxLength =>
                  /\ kept >= 0
                  /\ kept <= Len(str)
                  /\ SubSeq(out, kept + 1, Len(out)) = truncArgs.ellipsis
                  /\ SubSeq(out, 1, kept) = SubSeq(str, 1, kept)

====
